---- MODULE Spec2Model ----
(***************************************************************************)
(* A model of redbud::BigInteger (src/redbud/bignumber.h, bignumber.cc).   *)
(*                                                                         *)
(* A BigInteger is its member number_: a sequence of int16_t groups in     *)
(* base 10000, least significant group first.  The sign is bit 0x4000 of   *)
(* number_[0].  The C++ index n is the TLA+ index n + 1.                   *)
(*                                                                         *)
(* The value <<-1>> (Thrown) stands for "the call threw": Exception's      *)
(* constructor prints and calls exit(1) (src/redbud/exception.cc).         *)
(* The checks against MAX_GROUPS and MAX_DIGITS need more than 2^30 groups *)
(* to fire; the operators below are only applied far below that size, so   *)
(* the checks are true no-ops here and are left out.                       *)
(***************************************************************************)
EXTENDS Integers, Sequences, FiniteSets, TLC

\* ------------------------------------------------------------------------
\* Macros of bignumber.cc

POS_PART == 16383

NEG_PART == 16384

POSITIVE1 == 1

NEGATIVE1 == 16385

\* C++ % and / truncate toward zero
MOD(x) == IF x >= 0 THEN x % 10000 ELSE -((-x) % 10000)

DIV(x) == IF x >= 0 THEN x \div 10000 ELSE -((-x) \div 10000)

\* conversion of an int to int16_t (modulo 2^16)
ToInt16(x) == LET m == x % 65536 IN IF m >= 32768 THEN m - 65536 ELSE m

\* C++ integer division, truncating toward zero (d # 0)
CDiv(x, d) ==
  LET ax == IF x < 0 THEN -x ELSE x
      ad == IF d < 0 THEN -d ELSE d
      q  == ax \div ad
  IN IF (x < 0) = (d < 0) THEN q ELSE -q

Thrown == <<-1>>

\* ------------------------------------------------------------------------
\* Characters and C strings.  A string is a sequence of one-character
\* strings; reading the position just behind it yields the terminator NUL.

NUL == "NUL"

DigitChars == <<"0", "1", "2", "3", "4", "5", "6", "7", "8", "9">>

Digits == {DigitChars[k] : k \in 1..10}

NonZeroDigits == Digits \ {"0"}

\* the character codes of the characters used
CharCode(ch) ==
  IF ch \in Digits THEN 47 + (CHOOSE k \in 1..10 : DigitChars[k] = ch)
  ELSE IF ch = "+" THEN 43
  ELSE IF ch = "-" THEN 45
  ELSE IF ch = "." THEN 46
  ELSE IF ch = "E" THEN 69
  ELSE IF ch = "e" THEN 101
  ELSE IF ch = "x" THEN 120
  ELSE 0

\* ch - '0'
DigitOf(ch) == CharCode(ch) - 48

\* *(sz + i), i counted from 0
At(sz, i) == IF i < Len(sz) THEN sz[i + 1] ELSE NUL

Drop(sz, k) == SubSeq(sz, k + 1, Len(sz))

RECURSIVE Zeros(_)
Zeros(k) == IF k <= 0 THEN <<>> ELSE <<"0">> \o Zeros(k - 1)

RECURSIVE ZeroGroups(_)
ZeroGroups(k) == IF k <= 0 THEN <<>> ELSE <<0>> \o ZeroGroups(k - 1)

\* std::to_string of a non-negative int
RECURSIVE std_to_string(_)
std_to_string(v) ==
  IF v < 10 THEN <<DigitChars[v + 1]>>
  ELSE std_to_string(v \div 10) \o <<DigitChars[(v % 10) + 1]>>

\* strtoul(sz, nullptr, 10) of a run of digits
strtoul(sz) ==
  IF Len(sz) = 0 \/ sz[1] \notin Digits THEN 0
  ELSE LET RECURSIVE acc(_, _)
           acc(i, v) == IF i > Len(sz) \/ sz[i] \notin Digits THEN v
                        ELSE acc(i + 1, v * 10 + DigitOf(sz[i]))
       IN acc(1, 0)

\* ------------------------------------------------------------------------
\* Element access

is_negative(num) == num[1] > 10000

is_zero(num) == num[1] = 0 /\ Len(num) = 1

is_positive(num) == ~is_negative(num) /\ ~is_zero(num)

_group(num, n) == num[n + 1] % (POS_PART + 1)

_group_size(num) == Len(num)

is_odd(num) == _group(num, 0) % 2 = 1

is_even(num) == _group(num, 0) % 2 = 0

_group_push(num, value) == Append(num, value)

_group_adjust(num, n, value) == [num EXCEPT ![n + 1] = value]

_symbol_pos(num) == [num EXCEPT ![1] = @ % (POS_PART + 1)]

\* _symbol_neg that sets the sign flag of zero too
_symbol_neg_of_zero(num) ==
  [num EXCEPT ![1] = IF @ >= NEG_PART THEN @ ELSE @ + NEG_PART]

_symbol_neg(num) ==
  IF ~is_zero(num)
  THEN [num EXCEPT ![1] = IF @ >= NEG_PART THEN @ ELSE @ + NEG_PART]
  ELSE num

RECURSIVE _clear_excess_zeros(_)
_clear_excess_zeros(num) ==
  IF _group_size(num) - 1 > 0 /\ _group(num, _group_size(num) - 1) = 0
  THEN _clear_excess_zeros(SubSeq(num, 1, Len(num) - 1))
  ELSE num

\* if (result_neg) _symbol_neg();
WithSign(result_neg, num) == IF result_neg THEN _symbol_neg(num) ELSE num

reverse(num) ==
  IF is_negative(num) THEN _symbol_pos(num)
  ELSE IF is_positive(num) THEN _symbol_neg(num)
  ELSE num

opposite(num) == reverse(num)

absolute(num) == _symbol_pos(num)

\* digits(): the loop variable i is an int16_t, i *= 10 wraps
digits(num) ==
  LET back == num[Len(num)]
      RECURSIVE loop(_, _)
      loop(d, i) == IF i # 0 /\ CDiv(back, i) # 0
                    THEN loop(d + 1, ToInt16(i * 10))
                    ELSE d
  IN loop(((_group_size(num) - 1) * 4) + 1, 10)

\* BigInteger(T n) -> _integer_init(safe_abs(n), n < 0)
RECURSIVE IntGroups(_)
IntGroups(n) == IF n = 0 THEN <<>> ELSE <<n % 10000>> \o IntGroups(n \div 10000)

_integer_init(n, negative) ==
  IF n = 0 THEN <<0>>
  ELSE IF negative THEN _symbol_neg(IntGroups(n)) ELSE IntGroups(n)

safe_abs(n) == IF n < 0 THEN -n ELSE n

BigInteger(n) == _integer_init(safe_abs(n), n < 0)

\* ------------------------------------------------------------------------
\* Formatter

\* _group_to_string padding a group below 10 with two zeros only
_group_to_string_short_pad(num, n) ==
  IF n = _group_size(num) - 1 THEN std_to_string(_group(num, n))
  ELSE LET g == _group(num, n)
           pad == IF g < 100 THEN <<"0", "0">>
                  ELSE IF g < 1000 THEN <<"0">>
                  ELSE <<>>
       IN pad \o std_to_string(g)

_group_to_string(num, n) ==
  IF n = _group_size(num) - 1 THEN std_to_string(_group(num, n))
  ELSE LET g == _group(num, n)
           pad == IF g < 10 THEN <<"0", "0", "0">>
                  ELSE IF g < 100 THEN <<"0", "0">>
                  ELSE IF g < 1000 THEN <<"0">>
                  ELSE <<>>
       IN pad \o std_to_string(g)

to_string(num) ==
  LET RECURSIVE loop(_)
      loop(i) == IF i < 0 THEN <<>> ELSE _group_to_string(num, i) \o loop(i - 1)
  IN (IF is_negative(num) THEN <<"-">> ELSE <<>>) \o loop(_group_size(num) - 1)

_is_pow10(num) ==
  LET s == to_string(num)
  IN IF s[1] = "1" /\ \A k \in 2..Len(s) : s[k] = "0" THEN Len(s) - 1 ELSE -1

\* ------------------------------------------------------------------------
\* Parser

\* the first position >= i that does not hold a digit
RECURSIVE SkipDigits(_, _)
SkipDigits(sz, i) == IF At(sz, i) \in Digits THEN SkipDigits(sz, i + 1) ELSE i

\* _is_integer: "kZero", "kPositiveInteger", "kScientificNotation", "throw",
\* or "UB" when line 522 steps over the terminator and the following reads
\* leave the string.
_is_integer(sz) ==
  LET p0 == IF At(sz, 0) = "+" \/ At(sz, 0) = "-" THEN 1 ELSE 0
      p1 == p0 + 1
  IN IF At(sz, p0) = "0"
     THEN (IF At(sz, p0 + 1) # NUL THEN "throw" ELSE "kZero")
     ELSE IF At(sz, p0) \notin NonZeroDigits THEN "throw"
     ELSE IF At(sz, p1) = "." \/ At(sz, p1) = "e" \/ At(sz, p1) = "E"
     THEN IF At(sz, p1) = "." /\ At(sz, p1 + 1) \notin Digits THEN "throw"
          ELSE LET q  == IF At(sz, p1) = "." THEN SkipDigits(sz, p1 + 2) ELSE p1
                   p2 == q + 1
                   p3 == IF At(sz, p2) = "+" THEN p2 + 1 ELSE p2
               IN IF At(sz, q) = NUL THEN "UB"
                  ELSE IF At(sz, p3) \notin NonZeroDigits THEN "throw"
                  ELSE IF At(sz, SkipDigits(sz, p3 + 1)) # NUL THEN "throw"
                  ELSE "kScientificNotation"
     ELSE IF At(sz, SkipDigits(sz, p1)) # NUL THEN "throw"
     ELSE "kPositiveInteger"

\* BITNUM(ch, d)
BITNUM(ch, d) == DigitOf(ch) * d

\* GROUP_NUM(sz, index), sz[index-4 .. index-1] counted from 0
GROUP_NUM(sz, index) ==
  BITNUM(At(sz, index - 1), 1) + BITNUM(At(sz, index - 2), 10) +
  BITNUM(At(sz, index - 3), 100) + BITNUM(At(sz, index - 4), 1000)

\* lines 581-591: pack a run of digits into groups
PackInteger(sz) ==
  LET RECURSIVE groups(_, _)
      groups(num, i) == IF 4 < i THEN groups(_group_push(num, GROUP_NUM(sz, i)), i - 4)
                        ELSE <<num, i>>
      RECURSIVE last(_, _, _)
      last(i, m, v) == IF i > 0 THEN last(i - 1, m * 10, v + BITNUM(At(sz, i - 1), m))
                       ELSE v
      g == groups(<<>>, Len(sz))
  IN _group_push(g[1], last(g[2], 1, 0))

\* PackMantissa with the loop bound of the plain integer branch
PackMantissa_bound4(sz, i0) ==
  LET RECURSIVE groups(_, _)
      groups(num, i) == IF 4 < i THEN groups(_group_push(num, GROUP_NUM(sz, i)), i - 4)
                        ELSE <<num, i>>
      RECURSIVE last(_, _, _)
      last(i, m, v) == IF i > 0
                       THEN IF At(sz, i - 1) = "." THEN last(i - 1, m, v)
                            ELSE last(i - 1, m * 10, v + BITNUM(At(sz, i - 1), m))
                       ELSE v
      g == groups(<<>>, i0)
  IN _group_push(g[1], last(g[2], 1, 0))

\* lines 611-625: pack the mantissa d.fff of i characters into groups
PackMantissa(sz, i0) ==
  LET RECURSIVE groups(_, _)
      groups(num, i) == IF 5 < i THEN groups(_group_push(num, GROUP_NUM(sz, i)), i - 4)
                        ELSE <<num, i>>
      RECURSIVE last(_, _, _)
      last(i, m, v) == IF i > 0
                       THEN IF At(sz, i - 1) = "." THEN last(i - 1, m, v)
                            ELSE last(i - 1, m * 10, v + BITNUM(At(sz, i - 1), m))
                       ELSE v
      g == groups(<<>>, i0)
  IN _group_push(g[1], last(g[2], 1, 0))

\* line 598: walk back over the digits of the exponent
RECURSIVE BackDigits(_, _)
BackDigits(sz, i) == IF At(sz, i - 1) \in Digits THEN BackDigits(sz, i - 1) ELSE i

\* line 602: walk back over the characters that are not digits
RECURSIVE BackNonDigits(_, _)
BackNonDigits(sz, i) == IF At(sz, i - 1) \notin Digits THEN BackNonDigits(sz, i - 1) ELSE i

RECURSIVE _string_init(_, _)
RECURSIVE _shift10(_, _, _)

kMoveRight == 0

kMoveLeft == 1

\* operator=(const char*) / BigInteger(const char*) on a string the class
\* itself produced
FromString(s) == _string_init(s, "throw")

\* _shift10; number_.clear() leaves the empty sequence
_shift10(num, n, direction) ==
  IF is_zero(num) THEN num
  ELSE IF direction = kMoveLeft
  THEN IF n % 4 = 0 THEN ZeroGroups(n \div 4) \o num
       ELSE FromString(to_string(num) \o Zeros(n))
  ELSE IF n >= digits(num) THEN <<>>
       ELSE IF n % 4 = 0 THEN Drop(num, n \div 4)
       ELSE LET s == to_string(num) IN FromString(SubSeq(s, 1, Len(s) - n))

\* _string_init; ub is what _is_integer yields when its reads leave the
\* string ("throw" or "kScientificNotation")
_string_init(sz0, ub) ==
  LET result_neg == At(sz0, 0) = "-"
      sz == IF At(sz0, 0) = "+" \/ At(sz0, 0) = "-" THEN Drop(sz0, 1) ELSE sz0
      \* lines 604-629, given shift, i and exp
      mantissa(shift, i, exp) ==
        IF i = 1
        THEN _shift10(_group_push(<<>>, DigitOf(At(sz, 0))), shift, kMoveLeft)
        ELSE IF shift < exp - 3 THEN Thrown
        ELSE _shift10(PackMantissa(sz, i), shift - (exp - 3), kMoveLeft)
      \* lines 596-603, given the start i of the exponent digits
      scientific(i) ==
        mantissa(strtoul(Drop(sz, i)), BackNonDigits(sz, i), BackNonDigits(sz, i) + 1)
      \* lines 566-630, given the NumberType t
      init(t) ==
        IF t = "throw" THEN Thrown
        ELSE IF t = "kZero" THEN <<0>>
        ELSE IF t = "kPositiveInteger" THEN PackInteger(sz)
        ELSE scientific(BackDigits(sz, Len(sz)))
      signed(num) == IF num # Thrown THEN WithSign(result_neg, num) ELSE num
      resolve(t) == IF t = "UB" THEN ub ELSE t
  IN signed(init(resolve(_is_integer(sz0))))

\* ------------------------------------------------------------------------
\* Comparator

_compare(num, rhs) ==
  LET i == _group_size(num) - 1
      j == _group_size(rhs) - 1
      RECURSIVE loop(_)
      loop(k) == IF k < 0 THEN 0
                 ELSE IF _group(num, k) > _group(rhs, k) THEN 1
                 ELSE IF _group(rhs, k) > _group(num, k) THEN -1
                 ELSE loop(k - 1)
  IN IF i # j THEN (IF j < i THEN 1 ELSE -1) ELSE loop(i)

\* compare that does not invert the order of two negative values
compare_no_inversion(num, other) ==
  IF (~is_negative(num)) # (~is_negative(other))
  THEN (IF is_negative(num) THEN -1 ELSE 1)
  ELSE _compare(num, other)

compare(num, other) ==
  IF (~is_negative(num)) # (~is_negative(other))
  THEN (IF is_negative(num) THEN -1 ELSE 1)
  ELSE IF ~is_negative(num) THEN _compare(num, other)
  ELSE _compare(other, num)

\* operator== compares the vectors
Eq(lhs, rhs) == lhs = rhs

Ne(lhs, rhs) == ~Eq(lhs, rhs)

Lt(lhs, rhs) == compare(lhs, rhs) < 0

Gt(lhs, rhs) == Lt(rhs, lhs)

Le(lhs, rhs) == ~Lt(rhs, lhs)

Ge(lhs, rhs) == ~Lt(lhs, rhs)

\* ------------------------------------------------------------------------
\* Additive engine

\* _plus_with_pos that drops the carry out of the last group
_plus_with_pos_drop_carry(num, addend) ==
  LET RECURSIVE loop(_, _, _)
      loop(n, i, carry) ==
        IF i < _group_size(n) /\ i < _group_size(addend)
        THEN LET sum == _group(n, i) + _group(addend, i) + carry
             IN loop(_group_adjust(n, i, MOD(sum)), i + 1, DIV(sum))
        ELSE IF i < _group_size(n)
        THEN LET sum == _group(n, i) + carry
             IN loop(_group_adjust(n, i, MOD(sum)), i + 1, DIV(sum))
        ELSE IF i < _group_size(addend)
        THEN LET sum == _group(addend, i) + carry
             IN loop(_group_push(n, MOD(sum)), i + 1, DIV(sum))
        ELSE n
  IN IF is_zero(addend) THEN num
     ELSE IF is_zero(num) THEN addend
     ELSE loop(num, 0, 0)

_plus_with_pos(num, addend) ==
  LET RECURSIVE loop(_, _, _)
      loop(n, i, carry) ==
        IF i < _group_size(n) /\ i < _group_size(addend)
        THEN LET sum == _group(n, i) + _group(addend, i) + carry
             IN loop(_group_adjust(n, i, MOD(sum)), i + 1, DIV(sum))
        ELSE IF i < _group_size(n)
        THEN LET sum == _group(n, i) + carry
             IN loop(_group_adjust(n, i, MOD(sum)), i + 1, DIV(sum))
        ELSE IF i < _group_size(addend)
        THEN LET sum == _group(addend, i) + carry
             IN loop(_group_push(n, MOD(sum)), i + 1, DIV(sum))
        ELSE IF carry # 0 THEN _group_push(n, carry)
        ELSE n
  IN IF is_zero(addend) THEN num
     ELSE IF is_zero(num) THEN addend
     ELSE loop(num, 0, 0)

\* _minus_with_pos that swaps the operands but does not flip the sign
_minus_with_pos_no_flip(num, subtrahend) ==
  LET cmp == compare(num, subtrahend)
      larger0  == IF cmp < 0 THEN subtrahend ELSE num
      smaller == IF cmp < 0 THEN num ELSE subtrahend
      RECURSIVE loop(_, _, _)
      loop(larger, i, borrow) ==
        IF i < _group_size(larger)
        THEN LET d == IF i < _group_size(smaller)
                      THEN _group(larger, i) - _group(smaller, i) - borrow
                      ELSE _group(larger, i) - borrow
             IN IF d < 0 THEN loop(_group_adjust(larger, i, d + 10000), i + 1, 1)
                ELSE loop(_group_adjust(larger, i, d), i + 1, 0)
        ELSE larger
  IN IF is_zero(subtrahend) THEN num
     ELSE IF is_zero(num) THEN opposite(subtrahend)
     ELSE IF cmp = 0 THEN BigInteger(0)
     ELSE _clear_excess_zeros(loop(larger0, 0, 0))

_minus_with_pos(num, subtrahend) ==
  LET cmp == compare(num, subtrahend)
      neg_symbol == cmp < 0
      larger0  == IF cmp < 0 THEN subtrahend ELSE num
      smaller == IF cmp < 0 THEN num ELSE subtrahend
      RECURSIVE loop(_, _, _)
      loop(larger, i, borrow) ==
        IF i < _group_size(larger)
        THEN LET d == IF i < _group_size(smaller)
                      THEN _group(larger, i) - _group(smaller, i) - borrow
                      ELSE _group(larger, i) - borrow
             IN IF d < 0 THEN loop(_group_adjust(larger, i, d + 10000), i + 1, 1)
                ELSE loop(_group_adjust(larger, i, d), i + 1, 0)
        ELSE larger
      diff == _clear_excess_zeros(loop(larger0, 0, 0))
  IN IF is_zero(subtrahend) THEN num
     ELSE IF is_zero(num) THEN opposite(subtrahend)
     ELSE IF cmp = 0 THEN BigInteger(0)
     ELSE IF neg_symbol THEN _symbol_neg(diff) ELSE diff

\* operator+= that leaves the sum of two negative values positive
PlusAssign_no_sign(num, addend) ==
  IF ~is_negative(num) /\ ~is_negative(addend)
  THEN _plus_with_pos(num, addend)
  ELSE IF ~is_negative(num) /\ is_negative(addend)
  THEN _minus_with_pos(num, opposite(addend))
  ELSE IF is_negative(num) /\ ~is_negative(addend)
  THEN reverse(_minus_with_pos(_symbol_pos(num), addend))
  ELSE _plus_with_pos(_symbol_pos(num), opposite(addend))

\* operator+=
PlusAssign(num, addend) ==
  IF ~is_negative(num) /\ ~is_negative(addend)
  THEN _plus_with_pos(num, addend)
  ELSE IF ~is_negative(num) /\ is_negative(addend)
  THEN _minus_with_pos(num, opposite(addend))
  ELSE IF is_negative(num) /\ ~is_negative(addend)
  THEN reverse(_minus_with_pos(_symbol_pos(num), addend))
  ELSE _symbol_neg(_plus_with_pos(_symbol_pos(num), opposite(addend)))

\* operator-=
MinusAssign(num, subtrahend) ==
  _clear_excess_zeros(
    IF ~is_negative(num) /\ ~is_negative(subtrahend)
    THEN _minus_with_pos(num, subtrahend)
    ELSE IF ~is_negative(num) /\ is_negative(subtrahend)
    THEN _plus_with_pos(num, opposite(subtrahend))
    ELSE IF is_negative(num) /\ ~is_negative(subtrahend)
    THEN _symbol_neg(_plus_with_pos(_symbol_pos(num), subtrahend))
    ELSE reverse(_minus_with_pos(_symbol_pos(num), opposite(subtrahend))))

\* operator+ and operator- copy lhs and apply the compound operator
Plus(lhs, rhs) == PlusAssign(lhs, rhs)

Minus(lhs, rhs) == MinusAssign(lhs, rhs)

\* ------------------------------------------------------------------------
\* Multiplicative engine

\* _add_and_carry: <<number_ afterwards, returned carry flag>>
\* _add_and_carry that stores the sum without MOD
_add_and_carry_no_mod(num, n, value) ==
  IF n = _group_size(num) THEN <<Append(num, value), FALSE>>
  ELSE <<[num EXCEPT ![n + 1] = num[n + 1] + value], num[n + 1] + value < value>>

_add_and_carry(num, n, value) ==
  IF n = _group_size(num) THEN <<Append(num, value), FALSE>>
  ELSE LET v == MOD(num[n + 1] + value)
       IN <<[num EXCEPT ![n + 1] = v], v < value>>

\* _multiply_with_pos that ignores the carry flag of _add_and_carry
_multiply_with_pos_lost_carry(num, m) ==
  LET RECURSIVE inner(_, _, _, _)
      inner(result, j, i, carry) ==
        IF i < _group_size(num)
        THEN LET p  == _group(m, j) * _group(num, i) + carry
                 ac == _add_and_carry(result, j + i, MOD(p))
             IN inner(ac[1], j, i + 1, DIV(p))
        ELSE <<result, carry>>
      RECURSIVE outer(_, _)
      outer(result, j) ==
        IF j < _group_size(m)
        THEN LET row == inner(result, j, 0, 0)
             IN IF row[2] # 0
                THEN outer(_add_and_carry(row[1], j + _group_size(num), row[2])[1], j + 1)
                ELSE outer(row[1], j + 1)
        ELSE result
  IN _clear_excess_zeros(outer(ZeroGroups(_group_size(num) + _group_size(m)), 0))

_multiply_with_pos(num, m) ==
  LET RECURSIVE inner(_, _, _, _)
      \* the loop over i of row j: <<result, carry>>
      inner(result, j, i, carry) ==
        IF i < _group_size(num)
        THEN LET p  == _group(m, j) * _group(num, i) + carry
                 ac == _add_and_carry(result, j + i, MOD(p))
             IN inner(ac[1], j, i + 1, IF ac[2] THEN DIV(p) + 1 ELSE DIV(p))
        ELSE <<result, carry>>
      RECURSIVE outer(_, _)
      outer(result, j) ==
        IF j < _group_size(m)
        THEN LET row == inner(result, j, 0, 0)
             IN IF row[2] # 0
                THEN outer(_add_and_carry(row[1], j + _group_size(num), row[2])[1], j + 1)
                ELSE outer(row[1], j + 1)
        ELSE result
  IN _clear_excess_zeros(outer(ZeroGroups(_group_size(num) + _group_size(m)), 0))

\* operator*= that does not clear the sign before it shifts or multiplies
MulAssign_keeps_sign(num, multiplier) ==
  IF is_zero(num) \/ is_zero(multiplier) THEN BigInteger(0)
  ELSE LET result_neg == is_negative(num) # is_negative(multiplier)
           pow_of_ten == _is_pow10(absolute(multiplier))
           prod(p) == IF p >= 0
                      THEN _shift10(num, p, kMoveLeft)
                      ELSE _multiply_with_pos(num, absolute(multiplier))
       IN WithSign(result_neg, prod(pow_of_ten))

\* operator*=
MulAssign(num, multiplier) ==
  IF is_zero(num) \/ is_zero(multiplier) THEN BigInteger(0)
  ELSE LET result_neg == is_negative(num) # is_negative(multiplier)
           pow_of_ten == _is_pow10(absolute(multiplier))
           prod(p) == IF p >= 0
                      THEN _shift10(_symbol_pos(num), p, kMoveLeft)
                      ELSE _multiply_with_pos(_symbol_pos(num), absolute(multiplier))
       IN WithSign(result_neg, prod(pow_of_ten))

Mul(lhs, rhs) == MulAssign(lhs, rhs)

_high_range(num, n) ==
  LET g == _group_size(num)
      RECURSIVE loop(_, _)
      loop(result, i) ==
        IF i <= n
        THEN loop(PlusAssign(result,
                             _shift10(BigInteger(_group(num, g - i)), (n - i) * 4, kMoveLeft)),
                  i + 1)
        ELSE result
  IN loop(BigInteger(0), 1)

\* _search that returns low when the interval is down to two values
_search_keeps_low(dividend, divisor) ==
  LET RECURSIVE loop(_, _)
      loop(low, high) ==
        IF low < high
        THEN LET half == (low + high) \div 2
             IN IF low + 1 = high THEN low
                ELSE IF compare(dividend, Mul(divisor, BigInteger(half))) < 0
                THEN loop(low, half - 1)
                ELSE loop(half, high)
        ELSE low
  IN loop(1, 9999)

_search(dividend, divisor) ==
  LET RECURSIVE loop(_, _)
      loop(low, high) ==
        IF low < high
        THEN LET half == (low + high) \div 2
             IN IF low + 1 = high
                THEN (IF compare(dividend, Mul(divisor, BigInteger(high))) < 0
                      THEN low ELSE high)
                ELSE IF compare(dividend, Mul(divisor, BigInteger(half))) < 0
                THEN loop(low, half - 1)
                ELSE loop(half, high)
        ELSE low
  IN loop(1, 9999)

RECURSIVE _divide_loop(_, _, _)

\* _divide_with_pos, lines 881-884: the quotient goes to group at, its multiple
\* is taken from *this, and the for loop goes round
_divide_place(this, result, divisor, at, quotient) ==
  _divide_loop(MinusAssign(this, _shift10(Mul(divisor, BigInteger(quotient)), at * 4, kMoveLeft)),
               _group_adjust(result, at, quotient),
               divisor)

\* _divide_with_pos, lines 879-880, given borrow
_divide_take(this, result, divisor, borrow) ==
  _divide_place(this, result, divisor,
                _group_size(this) - _group_size(divisor) - borrow,
                _search(_high_range(this, _group_size(divisor) + borrow), divisor))

\* _divide_with_pos, lines 862-878, given cmp (g1 is _group_size(this))
_divide_pass(this, result, divisor, cmp) ==
  IF _group_size(this) = _group_size(divisor) /\ cmp < 0
  THEN _clear_excess_zeros(result)
  ELSE IF _group_size(this) = _group_size(divisor) /\ cmp = 0
  THEN _clear_excess_zeros(_group_adjust(result, _group_size(this) - 1, 1))
  ELSE _divide_take(this, result, divisor, IF cmp < 0 THEN 1 ELSE 0)

\* one pass of the for loop of _divide_with_pos, this and result as they stand
_divide_loop(this, result, divisor) ==
  IF _group_size(this) >= _group_size(divisor)
  THEN _divide_pass(this, result, divisor,
                    compare(_high_range(this, _group_size(divisor)), divisor))
  ELSE _clear_excess_zeros(result)

_divide_with_pos(num, divisor) ==
  _divide_loop(num, ZeroGroups(_group_size(num)), divisor)

\* operator/=, lines 304-312: |this| > |divisor|
_divide_general(this, divisor, pow_of_ten) ==
  IF pow_of_ten >= 0 THEN _shift10(this, pow_of_ten, kMoveRight)
  ELSE _divide_with_pos(this, absolute(divisor))

\* operator/=, lines 294-313: the quotient of the magnitudes, given comp
_divide_quotient(this, divisor, comp) ==
  IF is_zero(this) \/ comp < 0 THEN BigInteger(0)
  ELSE IF comp = 0 THEN BigInteger(1)
  ELSE _divide_general(this, divisor, _is_pow10(absolute(divisor)))

\* operator/=; a zero divisor throws
DivAssign(num, divisor) ==
  IF is_zero(divisor) THEN Thrown
  ELSE WithSign(is_negative(num) # is_negative(divisor),
                _divide_quotient(_symbol_pos(num), divisor,
                                 compare(_symbol_pos(num), absolute(divisor))))

Div(lhs, rhs) == DivAssign(lhs, rhs)

\* operator%=; a zero modulus throws
ModAssign(num, modulus) ==
  IF is_zero(modulus) THEN Thrown
  ELSE MinusAssign(num, Mul(Div(num, modulus), modulus))

Mod(lhs, rhs) == ModAssign(lhs, rhs)

\* ------------------------------------------------------------------------
\* Conversion to a native integer, power

\* the operation failed with "Invalid value."
InvalidValue == <<-2>>

\* BigInteger(std::numeric_limits<uint32_t>::max()): 4294967295
UINT32_MAX == <<7295, 9496, 42>>

IntegerTypes == {"int8_t", "uint8_t", "int16_t", "uint16_t", "uint32_t"}

\* BigInteger(std::numeric_limits<T>::min())
numeric_limits_min(T) ==
  IF T = "int8_t" THEN BigInteger(-128)
  ELSE IF T = "int16_t" THEN BigInteger(-32768)
  ELSE BigInteger(0)

\* BigInteger(std::numeric_limits<T>::max())
numeric_limits_max(T) ==
  IF T = "int8_t" THEN BigInteger(127)
  ELSE IF T = "uint8_t" THEN BigInteger(255)
  ELSE IF T = "int16_t" THEN BigInteger(32767)
  ELSE IF T = "uint16_t" THEN BigInteger(65535)
  ELSE UINT32_MAX

\* the two for loops of to_integer, from group i down to group 0; within
\* the range of T no partial sum leaves the range of T
RECURSIVE to_integer_loop(_, _, _)
to_integer_loop(num, i, n) ==
  IF i < 0 THEN n
  ELSE IF is_negative(num) THEN to_integer_loop(num, i - 1, n * 10000 - _group(num, i))
  ELSE to_integer_loop(num, i - 1, n * 10000 + _group(num, i))

\* to_integer<T>() that treats max(T) itself as out of range
to_integer_below_max(num, T) ==
  IF compare(num, numeric_limits_min(T)) < 0 \/ compare(num, numeric_limits_max(T)) >= 0
  THEN <<0, FALSE>>
  ELSE <<to_integer_loop(num, _group_size(num) - 1, 0), TRUE>>

\* to_integer<T>(): the pair <<first, second>>
to_integer(num, T) ==
  IF compare(num, numeric_limits_min(T)) < 0 \/ compare(num, numeric_limits_max(T)) > 0
  THEN <<0, FALSE>>
  ELSE <<to_integer_loop(num, _group_size(num) - 1, 0), TRUE>>

RECURSIVE _power_of(_, _)

\* _power_of, lines 913-928: |*this| is 10^p
_power_of_ten(num, n, p) ==
  IF ~to_integer(n, "uint32_t")[2] THEN Thrown
  ELSE WithSign(is_negative(num) /\ is_odd(n),
                _shift10(BigInteger(1), p * to_integer(n, "uint32_t")[1], kMoveLeft))

\* recursive squaring that leaves out the factor *this of an odd exponent
_power_of_squares_even_only(num, n) ==
  IF ~to_integer(n, "uint32_t")[2] THEN Thrown
  ELSE CHOOSE r \in {Mul(h, h) : h \in {_power_of(num, half) : half \in {Div(n, BigInteger(2))}}} : TRUE

\* _power_of, lines 930-944: recursive squaring; half is n / 2, h is
\* power(n / 2), which is the same value in both factors, sq is h * h
_power_of_squares(num, n) ==
  IF ~to_integer(n, "uint32_t")[2] THEN Thrown
  ELSE CHOOSE r \in {IF is_odd(n) THEN Mul(sq, num) ELSE sq :
                     sq \in {Mul(h, h) :
                       h \in {_power_of(num, half) : half \in {Div(n, BigInteger(2))}}}} : TRUE

\* _power_of, lines 894-944: *this is not zero
_power_of_nonzero(num, n) ==
  IF _group(num, 0) # 1 /\ is_negative(n) THEN BigInteger(0)
  ELSE IF \/ is_zero(n)
          \/ num = <<POSITIVE1>>
          \/ (num = <<NEGATIVE1>> /\ is_even(n))
  THEN BigInteger(1)
  ELSE IF num = <<NEGATIVE1>> /\ is_odd(n) THEN BigInteger(-1)
  ELSE IF n = <<POSITIVE1>> THEN num
  ELSE IF _is_pow10(absolute(num)) >= 0 THEN _power_of_ten(num, n, _is_pow10(absolute(num)))
  ELSE _power_of_squares(num, n)

\* _power_of that rejects only a negative exponent of a zero base
_power_of_zero_to_zero(num, n) ==
  IF is_zero(num) /\ is_negative(n) THEN InvalidValue
  ELSE IF is_zero(num) THEN BigInteger(0)
  ELSE _power_of_nonzero(num, n)

_power_of(num, n) ==
  IF is_zero(num) /\ ~is_positive(n) THEN InvalidValue
  ELSE IF is_zero(num) THEN BigInteger(0)
  ELSE _power_of_nonzero(num, n)

power(num, n) == _power_of(num, n)

\* ------------------------------------------------------------------------
\* Shifts by a BigInteger, increment and decrement, copy and move

\* operator<<= without the test of the sign of n
ShlAssign_unchecked(num, n) ==
  CHOOSE r \in {MulAssign(num, p) : p \in {power(BigInteger(2), n)}} : TRUE

\* operator<<=; a negative n throws
ShlAssign(num, n) ==
  IF is_negative(n) THEN Thrown
  ELSE CHOOSE r \in {MulAssign(num, p) : p \in {power(BigInteger(2), n)}} : TRUE

\* operator>>=; a negative n throws
ShrAssign(num, n) ==
  IF is_negative(n) THEN Thrown
  ELSE CHOOSE r \in {DivAssign(num, p) : p \in {power(BigInteger(2), n)}} : TRUE

\* the do-while loop of operator++, from group g
RECURSIVE _increment_loop(_, _)
_increment_loop(num, g) ==
  IF _add_and_carry(num, g, 1)[2]
  THEN _increment_loop(_add_and_carry(num, g, 1)[1], g + 1)
  ELSE _add_and_carry(num, g, 1)[1]

\* the do-while loop of operator--, from group g
RECURSIVE _decrement_loop(_, _)
_decrement_loop(num, g) ==
  IF _group(num, g) = 0 THEN _decrement_loop(_group_adjust(num, g, 9999), g + 1)
  ELSE IF _add_and_carry(num, g, -1)[2]
  THEN _decrement_loop(_add_and_carry(num, g, -1)[1], g)
  ELSE _add_and_carry(num, g, -1)[1]

RECURSIVE PreDecrement(_)

\* operator++() that steps a negative value like a non-negative one
PreIncrement_sign_blind(num) == _increment_loop(num, 0)

\* operator++()
PreIncrement(num) ==
  IF ~is_negative(num) THEN _increment_loop(num, 0)
  ELSE reverse(PreDecrement(reverse(num)))

\* operator--() that borrows without clearing the emptied top group
PreDecrement_keeps_zeros(num) ==
  IF is_zero(num) THEN <<NEGATIVE1>>
  ELSE IF ~is_negative(num) THEN _decrement_loop(num, 0)
  ELSE reverse(PreIncrement(reverse(num)))

\* operator--()
PreDecrement(num) ==
  IF is_zero(num) THEN <<NEGATIVE1>>
  ELSE IF ~is_negative(num) THEN _clear_excess_zeros(_decrement_loop(num, 0))
  ELSE reverse(PreIncrement(reverse(num)))

\* operator++(int): <<the value returned, *this after the call>>
PostIncrement(num) == <<num, PreIncrement(num)>>

\* operator--(int): <<the value returned, *this after the call>>
PostDecrement(num) == <<num, PreDecrement(num)>>

\* ------------------------------------------------------------------------
\* The loops, one iteration at a time

\* _divide_with_pos, lines 879-884 of one pass: <<*this, result, TRUE>>
_divide_step_place(this, result, divisor, at, quotient) ==
  CHOOSE r \in {<<MinusAssign(this, multiple), _group_adjust(result, at, quotient), TRUE>> :
                  multiple \in {_shift10(m, at * 4, kMoveLeft) :
                    m \in {Mul(divisor, BigInteger(quotient))}}} : TRUE

\* _divide_with_pos, lines 877-880 of one pass, given borrow
_divide_step_take(this, result, divisor, borrow) ==
  CHOOSE r \in {_divide_step_place(this, result, divisor,
                                   _group_size(this) - _group_size(divisor) - borrow,
                                   quotient) :
                  quotient \in {_search(dividend, divisor) :
                    dividend \in {_high_range(this, _group_size(divisor) + borrow)}}} : TRUE

\* _divide_with_pos, lines 862-878 of one pass, given cmp
_divide_step_pass(this, result, divisor, cmp) ==
  IF _group_size(this) = _group_size(divisor) /\ cmp < 0
  THEN <<this, _clear_excess_zeros(result), FALSE>>
  ELSE IF _group_size(this) = _group_size(divisor) /\ cmp = 0
  THEN <<this, _clear_excess_zeros(_group_adjust(result, _group_size(this) - 1, 1)), FALSE>>
  ELSE _divide_step_take(this, result, divisor, IF cmp < 0 THEN 1 ELSE 0)

\* one pass of the for loop of _divide_with_pos: <<*this, result, whether
\* the loop goes round again>>
_divide_step(this, result, divisor) ==
  IF _group_size(this) >= _group_size(divisor)
  THEN CHOOSE r \in {_divide_step_pass(this, result, divisor, cmp) :
                       cmp \in {compare(dividend, divisor) :
                         dividend \in {_high_range(this, _group_size(divisor))}}} : TRUE
  ELSE <<this, _clear_excess_zeros(result), FALSE>>

\* _search, lines 1015-1022 of one pass, given half
_search_step_half(dividend, divisor, low, high, half) ==
  IF \E m \in {Mul(divisor, BigInteger(half))} : compare(dividend, m) < 0
  THEN <<low, half - 1, TRUE, 0>>
  ELSE <<half, high, TRUE, 0>>

\* one pass of the while loop of _search without the test low + 1 == high
_search_step_no_pair_test(dividend, divisor, low, high) ==
  IF ~(low < high) THEN <<low, high, FALSE, low>>
  ELSE _search_step_half(dividend, divisor, low, high, (low + high) \div 2)

\* one pass of the while loop of _search: <<low, high, whether the loop
\* goes round again, the value returned when it does not>>
_search_step(dividend, divisor, low, high) ==
  IF ~(low < high) THEN <<low, high, FALSE, low>>
  ELSE IF low + 1 = high
  THEN <<low, high, FALSE,
         IF \E m \in {Mul(divisor, BigInteger(high))} : compare(dividend, m) < 0
         THEN low ELSE high>>
  ELSE _search_step_half(dividend, divisor, low, high, (low + high) \div 2)

\* one pass of the do-while loop of operator++: <<*this, g, carry>>
_increment_step(num, g) ==
  <<_add_and_carry(num, g, 1)[1], g + 1, _add_and_carry(num, g, 1)[2]>>

\* one pass of the do-while loop of operator--: <<*this, g, borrow>>
_decrement_step(num, g) ==
  IF _group(num, g) = 0 THEN <<_group_adjust(num, g, 9999), g + 1, TRUE>>
  ELSE <<_add_and_carry(num, g, -1)[1], g, _add_and_carry(num, g, -1)[2]>>

\* number_ of the source after std::move(other.number_): the storage has
\* gone to the destination and the source vector is empty
MovedFrom == <<>>

\* to_string() of a BigInteger whose number_ is empty: is_negative() reads
\* number_[0] outside the storage, neg is what the comparison makes of it;
\* the loop over the groups starts at -1 and does not run
to_string_empty(neg) == IF neg THEN <<"-">> ELSE <<>>

\* ------------------------------------------------------------------------
\* print and the stream operators

\* printf("%04d", v) of a group
printf_04d(v) ==
  IF v < 10 THEN <<"0", "0", "0">> \o std_to_string(v)
  ELSE IF v < 100 THEN <<"0", "0">> \o std_to_string(v)
  ELSE IF v < 1000 THEN <<"0">> \o std_to_string(v)
  ELSE std_to_string(v)

\* the for loop of print, from group i down to group 0
RECURSIVE print_groups(_, _)
print_groups(num, i) ==
  IF i < 0 THEN <<>> ELSE printf_04d(_group(num, i)) \o print_groups(num, i - 1)

\* print(sep): the characters written to stdout
print(num, sep) ==
  (IF is_negative(num) THEN <<"-">> ELSE <<>>)
    \o std_to_string(_group(num, _group_size(num) - 1))
    \o print_groups(num, _group_size(num) - 2)
    \o (IF sep # NUL THEN <<sep>> ELSE <<>>)

\* operator<<(os, b): <<characters appended to os, characters written to
\* stdout>>; the body is b.print(); return os;
StreamOut(num) == <<<<>>, print(num, NUL)>>

\* number_ of b when _string_init throws after b.number_.clear(): empty
\* when _is_integer throws, the groups of the mantissa when line 627 throws
_string_init_partial(sz0, ub) ==
  IF (IF _is_integer(sz0) = "UB" THEN ub ELSE _is_integer(sz0)) = "throw" THEN <<>>
  ELSE PackMantissa(IF At(sz0, 0) = "+" \/ At(sz0, 0) = "-" THEN Drop(sz0, 1) ELSE sz0,
                    BackNonDigits(IF At(sz0, 0) = "+" \/ At(sz0, 0) = "-" THEN Drop(sz0, 1) ELSE sz0,
                                  BackDigits(IF At(sz0, 0) = "+" \/ At(sz0, 0) = "-" THEN Drop(sz0, 1) ELSE sz0,
                                             Len(IF At(sz0, 0) = "+" \/ At(sz0, 0) = "-" THEN Drop(sz0, 1) ELSE sz0))))

\* operator>>(is, b) with the token buf: <<number_ of b when the call ends,
\* whether the call threw>>
StreamIn(buf, ub) ==
  IF _string_init(buf, ub) = Thrown THEN <<_string_init_partial(buf, ub), TRUE>>
  ELSE <<_string_init(buf, ub), FALSE>>

\* ------------------------------------------------------------------------
\* Bounds of the model

\* operations applied in one run
MaxSteps == 2

\* a value kept in a run has at most three groups, the third at most MaxTop
MaxTop == 8

\* small operands -MaxSmall .. MaxSmall
MaxSmall == 2

\* length of the strings a BigInteger is constructed from
MaxLen == 4

\* fractional digits of the mantissa of a scientific-notation literal
MaxFrac == 5

\* exponents of power and shift amounts -MaxExp .. MaxExp
MaxExp == 4

\* decimal digits a product may have (MAX_DIGITS of the model)
MaxDigits == 9

\* decimal shift amounts 0 .. MaxShift
MaxShift == 9

\* ------------------------------------------------------------------------
\* operator*= against the digit limit

\* MAX_DIGITS is 0xFFFFFFFC in the source; the model keeps the comparisons
\* and scales the limit down to MaxDigits
MAX_DIGITS == MaxDigits

\* the condition of the throw of _shift10(n, kMoveLeft), line 956
_shift10_overflow(num, n) == ~is_zero(num) /\ digits(num) + n > MAX_DIGITS

\* the condition of the throw of _multiply_with_pos, line 816
_multiply_with_pos_overflow(num, m) == digits(num) + digits(m) - 1 > MAX_DIGITS

\* operator*= up to the call that may throw, given pow_of_ten: *this has
\* gone through _symbol_pos() by then
_multiply_overflow(this, multiplier, pow_of_ten) ==
  IF pow_of_ten >= 0 THEN _shift10_overflow(this, pow_of_ten)
  ELSE _multiply_with_pos_overflow(this, absolute(multiplier))

\* operator*= with the digit limit: <<number_ of *this when the call ends,
\* whether the call threw>>
MulAssign_limited(num, multiplier) ==
  IF is_zero(num) \/ is_zero(multiplier) THEN <<BigInteger(0), FALSE>>
  ELSE IF _multiply_overflow(_symbol_pos(num), multiplier, _is_pow10(absolute(multiplier)))
  THEN <<_symbol_pos(num), TRUE>>
  ELSE <<MulAssign(num, multiplier), FALSE>>

\* ------------------------------------------------------------------------
\* The program: two BigInteger objects a and b, the public operations
\* applied to them, and what the last operation did.

VARIABLES a, b, op, x, y, res, rel, err, steps, str

vars == <<a, b, op, x, y, res, rel, err, steps, str>>

SeedInts ==
  (-MaxSmall .. MaxSmall) \cup
  {7, -7, 10, -100, 9999, -9999, 10000, 10001, -10001, 12345, 19999,
   20002, 99999999, 100000000, -100000000, 100020001, -100020001}

Operands == {BigInteger(n) : n \in SeedInts}

InBound(num) ==
  \/ num = Thrown
  \/ Len(num) <= 2
  \/ Len(num) = 3 /\ _group(num, 2) <= MaxTop

NoRel == [cmp |-> 0, eq |-> FALSE, ne |-> FALSE, lt |-> FALSE,
          gt |-> FALSE, le |-> FALSE, ge |-> FALSE]

Init ==
  /\ a \in Operands
  /\ b \in Operands
  /\ op = "init"
  /\ x = a
  /\ y = b
  /\ res = a
  /\ rel = NoRel
  /\ err = "none"
  /\ steps = 0
  /\ str = <<>>

\* a compound operator applied to a with argument b: a failed call ends the
\* program (exit(1)) with a as it was, a completed one leaves its result in a
Apply(name, r, kind) ==
  /\ err = "none"
  /\ steps < MaxSteps
  /\ InBound(r)
  /\ op' = name
  /\ x' = a
  /\ y' = b
  /\ res' = r
  /\ a' = IF r = Thrown THEN a ELSE r
  /\ err' = IF r = Thrown THEN kind ELSE "none"
  /\ steps' = steps + 1
  /\ UNCHANGED <<b, rel, str>>

OpPlus == Apply("plus", PlusAssign(a, b), "none")

OpMinus == Apply("minus", MinusAssign(a, b), "none")

OpMul == Apply("mul", MulAssign(a, b), "Overflow")

OpDiv == Apply("div", DivAssign(a, b), "DivideByZero")

OpMod == Apply("mod", ModAssign(a, b), "DivideByZero")

\* compare and the relational operators, a against b
OpCompare ==
  /\ err = "none"
  /\ steps < MaxSteps
  /\ op' = "compare"
  /\ x' = a
  /\ y' = b
  /\ rel' = [cmp |-> compare(a, b), eq |-> Eq(a, b), ne |-> Ne(a, b),
             lt |-> Lt(a, b), gt |-> Gt(a, b), le |-> Le(a, b), ge |-> Ge(a, b)]
  /\ steps' = steps + 1
  /\ UNCHANGED <<a, b, res, err, str>>

\* a.swap(b)
OpSwap ==
  /\ err = "none"
  /\ steps < MaxSteps
  /\ op' = "swap"
  /\ x' = a
  /\ y' = b
  /\ a' = b
  /\ b' = a
  /\ res' = b
  /\ steps' = steps + 1
  /\ UNCHANGED <<rel, err, str>>

\* to_string() of a, and a BigInteger constructed from that text
OpToString ==
  /\ err = "none"
  /\ steps < MaxSteps
  /\ op' = "to_string"
  /\ x' = a
  /\ y' = b
  /\ str' = to_string(a)
  /\ res' = _string_init(to_string(a), "throw")
  /\ steps' = steps + 1
  /\ UNCHANGED <<a, b, rel, err>>

Next ==
  \/ OpPlus
  \/ OpMinus
  \/ OpMul
  \/ OpDiv
  \/ OpMod
  \/ OpCompare
  \/ OpSwap
  \/ OpToString

Spec == Init /\ [][Next]_vars

\* ------------------------------------------------------------------------
\* Construction from a string

Alphabet == {"+", "-", "0", "1", ".", "e", "x"}

SeqsUpTo(S, n) == UNION {[1..k -> S] : k \in 0..n}

\* longer literals: a mantissa with as many fractional digits as the
\* exponent, with more, and with something other than e behind it
SeedStrings ==
  {<<"1", ".", "5", "e", "1">>, <<"1", ".", "0", "0", "e", "1">>,
   <<"-", "1", ".", "2", "5", "E", "+", "2">>, <<"1", ".", "0", "x", "1">>,
   <<"1", ".", "5", "x", "3">>, <<"1", ".", "5", ".", "3">>,
   <<"+", "1", "2", "3", "4", "5", "6", "7", "8", "9">>,
   <<"-", "0", "0", "0">>, <<"0", "1", "2", "3", "4">>}

ShortStrings == SeqsUpTo(Alphabet, MaxLen) \cup SeedStrings

SciLiterals ==
  {sign \o <<d>> \o (IF f = <<>> THEN <<>> ELSE <<".">> \o f) \o <<m>> \o plus \o D :
     sign \in {<<>>, <<"+">>, <<"-">>}, d \in {"1", "9"},
     f \in SeqsUpTo({"0", "5"}, MaxFrac), m \in {"e", "E"},
     plus \in {<<>>, <<"+">>},
     D \in {<<"1">>, <<"3">>, <<"4">>, <<"5">>, <<"8">>, <<"1", "0">>}}

InitString(S) ==
  /\ str \in S
  /\ a = BigInteger(0)
  /\ b = BigInteger(0)
  /\ op = "init"
  /\ x = a
  /\ y = b
  /\ res = a
  /\ rel = NoRel
  /\ err = "none"
  /\ steps = 0

InitParse == InitString(ShortStrings)

InitSci == InitString(SciLiterals)

\* a = BigInteger(str): _string_init throws or fills number_.  When
\* _is_integer reads behind the string the reads may or may not find
\* the rest of a literal there.
Construct ==
  /\ op = "init"
  /\ err = "none"
  /\ \E ub \in {"throw", "kScientificNotation"} :
       /\ res' = _string_init(str, ub)
       /\ a' = IF res' = Thrown THEN a ELSE res'
       /\ err' = IF res' = Thrown THEN "ParseError" ELSE "none"
  /\ op' = "construct"
  /\ steps' = steps + 1
  /\ UNCHANGED <<b, x, y, rel, str>>

NextParse == Construct

SpecParse == InitParse /\ [][NextParse]_vars

SpecSci == InitSci /\ [][NextParse]_vars

\* ------------------------------------------------------------------------
\* power: a.power(b)

Exponents == {BigInteger(n) : n \in (-MaxExp .. MaxExp) \cup {14}}

InitPower ==
  /\ a \in Operands
  /\ b \in Exponents
  /\ op = "init"
  /\ x = a
  /\ y = b
  /\ res = a
  /\ rel = NoRel
  /\ err = "none"
  /\ steps = 0
  /\ str = <<>>

\* res = a.power(b); a and b are const in the call
OpPower ==
  /\ op = "init"
  /\ err = "none"
  /\ \E r \in {power(a, b)} :
       /\ InBound(r)
       /\ res' = r
  /\ op' = "power"
  /\ err' = IF res' = InvalidValue THEN "InvalidValue"
            ELSE IF res' = Thrown THEN "Overflow"
            ELSE "none"
  /\ steps' = steps + 1
  /\ UNCHANGED <<a, b, x, y, rel, str>>

NextPower == OpPower

SpecPower == InitPower /\ [][NextPower]_vars

\* ------------------------------------------------------------------------
\* The public operations that modify a BigInteger, applied in sequence

OpsInts == (-MaxSmall .. MaxSmall) \cup {9999, -9999, 10000, -10001, 99999999, -100000000}

OpsOperands == {BigInteger(n) : n \in OpsInts}

\* literals assigned with operator=(const char*)
AssignLiterals ==
  {<<"0">>, <<"-", "0">>, <<"+", "0">>, <<"-", "1">>, <<"-", "0", "0">>,
   <<"1", "e", "4">>, <<"-", "1", ".", "5", "e", "1">>, <<"1", "2", "x">>}

InitOps ==
  /\ a \in OpsOperands
  /\ b \in OpsOperands \cup Exponents
  /\ op = "init"
  /\ x = a
  /\ y = b
  /\ res = a
  /\ rel = NoRel
  /\ err = "none"
  /\ steps = 0
  /\ str = <<>>

OpShl == b \in Exponents /\ Apply("shl", ShlAssign(a, b), "PositiveRequired")

OpShr == b \in Exponents /\ Apply("shr", ShrAssign(a, b), "PositiveRequired")

OpInc == Apply("inc", PreIncrement(a), "none")

OpDec == Apply("dec", PreDecrement(a), "none")

OpReverse == Apply("reverse", reverse(a), "none")

\* a = b
OpCopy == Apply("copy", b, "none")

\* a = "literal"
OpAssign == \E s \in AssignLiterals : Apply("assign", _string_init(s, "throw"), "ParseError")

NextOps ==
  \/ Next
  \/ OpShl
  \/ OpShr
  \/ OpInc
  \/ OpDec
  \/ OpReverse
  \/ OpCopy
  \/ OpAssign

SpecOps == InitOps /\ [][NextOps]_vars

\* ------------------------------------------------------------------------
\* Move construction and move assignment from b

\* BigInteger c(std::move(b)); res is c, str is b.to_string() afterwards
OpMoveConstruct ==
  /\ op = "init"
  /\ op' = "move_construct"
  /\ res' = b
  /\ b' = MovedFrom
  /\ \E neg \in BOOLEAN : str' = to_string_empty(neg)
  /\ steps' = steps + 1
  /\ UNCHANGED <<a, x, y, rel, err>>

\* a = std::move(b); str is b.to_string() afterwards
OpMoveAssign ==
  /\ op = "init"
  /\ op' = "move_assign"
  /\ a' = b
  /\ res' = b
  /\ b' = MovedFrom
  /\ \E neg \in BOOLEAN : str' = to_string_empty(neg)
  /\ steps' = steps + 1
  /\ UNCHANGED <<x, y, rel, err>>

NextMove == OpMoveConstruct \/ OpMoveAssign

SpecMove == Init /\ [][NextMove]_vars

\* ------------------------------------------------------------------------
\* Conversion of a to a native integer type

ConvInts ==
  SeedInts \cup {127, 128, -128, -129, 255, 256, 32767, 32768, -32768, -32769, 65535, 65536}

InitToInteger ==
  /\ a \in {BigInteger(n) : n \in ConvInts}
  /\ b = BigInteger(0)
  /\ op = "init"
  /\ x = a
  /\ y = b
  /\ res = a
  /\ rel = NoRel
  /\ err = "none"
  /\ steps = 0
  /\ str = <<>>

\* res = a.to_integer<T>() as the pair <<first, second>>, str names T
OpToInteger ==
  /\ op = "init"
  /\ \E T \in IntegerTypes :
       /\ res' = to_integer(a, T)
       /\ str' = <<T>>
  /\ op' = "to_integer"
  /\ steps' = steps + 1
  /\ UNCHANGED <<a, b, x, y, rel, err>>

NextToInteger == OpToInteger

SpecToInteger == InitToInteger /\ [][NextToInteger]_vars

\* ------------------------------------------------------------------------
\* a *= b against the digit limit

\* a *= b; a is what the call leaves in the receiver, also when it throws
OpMulLimited ==
  /\ op = "init"
  /\ \E r \in {MulAssign_limited(a, b)} :
       /\ InBound(r[1])
       /\ a' = r[1]
       /\ res' = IF r[2] THEN Thrown ELSE r[1]
       /\ err' = IF r[2] THEN "Overflow" ELSE "none"
  /\ op' = "mul"
  /\ x' = a
  /\ y' = b
  /\ steps' = steps + 1
  /\ UNCHANGED <<b, rel, str>>

NextLimit == OpMulLimited

SpecLimit == Init /\ [][NextLimit]_vars

\* ------------------------------------------------------------------------
\* digits(), _shift10 and _search on their own

\* the operands of Init and a dividend that long division brings down to
\* a remainder equal to the divisor 10000
InternalsOperands == Operands \cup {BigInteger(100010000)}

InitInternals ==
  /\ a \in InternalsOperands
  /\ b \in InternalsOperands
  /\ op = "init"
  /\ x = a
  /\ y = b
  /\ res = a
  /\ rel = NoRel
  /\ err = "none"
  /\ steps = 0
  /\ str = <<>>

\* res = a.digits()
OpDigits ==
  /\ op = "init"
  /\ op' = "digits"
  /\ res' = digits(a)
  /\ steps' = steps + 1
  /\ UNCHANGED <<a, b, x, y, rel, err, str>>

\* a._shift10(n, direction) on a non-negative a, as operator*=, operator/=
\* and _string_init call it; y is n, rel the direction, res the number_ left
OpShift10 ==
  /\ op = "init"
  /\ ~is_negative(a)
  /\ \E n \in 0..MaxShift, direction \in {kMoveLeft, kMoveRight} :
       \E r \in {_shift10(a, n, direction)} :
         /\ InBound(r)
         /\ res' = r
         /\ y' = BigInteger(n)
         /\ rel' = direction
  /\ op' = "shift10"
  /\ steps' = steps + 1
  /\ UNCHANGED <<a, b, x, err, str>>

\* res = _search(a, b) for a dividend a and a positive divisor b
OpSearch ==
  /\ op = "init"
  /\ is_positive(a)
  /\ is_positive(b)
  /\ op' = "search"
  /\ res' = _search(a, b)
  /\ steps' = steps + 1
  /\ UNCHANGED <<a, b, x, y, rel, err, str>>

NextInternals ==
  \/ OpDigits
  \/ OpShift10
  \/ OpSearch
  \/ OpMul
  \/ OpDiv

SpecInternals == InitInternals /\ [][NextInternals]_vars

\* ------------------------------------------------------------------------
\* Stream output, print and stream input: str is the content of the stream
\* os handed to operator<<, res what the program has written to stdout, rel
\* the separator handed to print (empty for NUL) or the token read

\* separators handed to print
Separators == {NUL, " ", ","}

\* tokens read from the input stream
Tokens ==
  AssignLiterals \cup
  {<<>>, <<"7">>, <<"-", "1", "2", "3", "4", "5">>, <<"1", ".", "2", "5", "e", "1">>,
   <<"-", "1", ".", "2", "5", "e", "1">>, <<"1", ".", "5">>, <<"0", "1">>}

InitStream ==
  /\ a \in OpsOperands
  /\ b = BigInteger(0)
  /\ op = "init"
  /\ x = a
  /\ y = b
  /\ res = <<>>
  /\ rel = <<>>
  /\ err = "none"
  /\ steps = 0
  /\ str = <<>>

\* os << a
OpStreamOut ==
  /\ err = "none"
  /\ steps < MaxSteps
  /\ op' = "stream_out"
  /\ x' = a
  /\ str' = str \o StreamOut(a)[1]
  /\ res' = res \o StreamOut(a)[2]
  /\ steps' = steps + 1
  /\ UNCHANGED <<a, b, y, rel, err>>

\* a.print(sep)
OpPrint ==
  /\ err = "none"
  /\ steps < MaxSteps
  /\ \E sep \in Separators :
       /\ rel' = IF sep = NUL THEN <<>> ELSE <<sep>>
       /\ res' = res \o print(a, sep)
  /\ op' = "print"
  /\ x' = a
  /\ steps' = steps + 1
  /\ UNCHANGED <<a, b, y, err, str>>

\* is >> a with the next token of is; rel is the token
OpStreamIn ==
  /\ err = "none"
  /\ steps < MaxSteps
  /\ \E buf \in Tokens, ub \in {"throw", "kScientificNotation"} :
       \E r \in {StreamIn(buf, ub)} :
         /\ rel' = buf
         /\ a' = r[1]
         /\ err' = IF r[2] THEN "ParseError" ELSE "none"
  /\ op' = "stream_in"
  /\ x' = a
  /\ steps' = steps + 1
  /\ UNCHANGED <<b, y, res, str>>

NextStream ==
  \/ OpStreamOut
  \/ OpPrint
  \/ OpStreamIn

SpecStream == InitStream /\ [][NextStream]_vars

\* ------------------------------------------------------------------------
\* Increment and decrement, prefix and postfix

StepInts == OpsInts \cup {-10000, 19999, 100000000, -99999999}

InitStep ==
  /\ a \in {BigInteger(n) : n \in StepInts}
  /\ b = BigInteger(0)
  /\ op = "init"
  /\ x = a
  /\ y = b
  /\ res = a
  /\ rel = NoRel
  /\ err = "none"
  /\ steps = 0
  /\ str = <<>>

\* res = a++ and res = a--: res is the copy made before the step
PostStep(name, r) ==
  /\ err = "none"
  /\ steps < MaxSteps
  /\ InBound(r[2])
  /\ op' = name
  /\ x' = a
  /\ y' = b
  /\ res' = r[1]
  /\ a' = r[2]
  /\ steps' = steps + 1
  /\ UNCHANGED <<b, rel, err, str>>

OpPostInc == PostStep("post_inc", PostIncrement(a))

OpPostDec == PostStep("post_dec", PostDecrement(a))

NextStep ==
  \/ OpInc
  \/ OpDec
  \/ OpPostInc
  \/ OpPostDec

SpecStep == InitStep /\ [][NextStep]_vars

\* ------------------------------------------------------------------------
\* The loops of a / b, _search, ++a and --a, one iteration per step: op is
\* the loop the program is in, a is *this, b the divisor, res the quotient
\* built so far or the group returned, rel the loop's local variables
\* <<low, high, negated>> (low and high of _search; for ++ and -- the group
\* index g in the place of low, and whether the caller negated *this), str
\* the call

InitLoops ==
  /\ a \in InternalsOperands
  /\ b \in InternalsOperands
  /\ op = "init"
  /\ x = a
  /\ y = b
  /\ res = a
  /\ rel = <<0, 0, FALSE>>
  /\ err = "none"
  /\ steps = 0
  /\ str = <<>>

\* a /= b reaches _divide_with_pos(divisor.absolute())
StartDivide ==
  /\ op = "init"
  /\ ~is_zero(b)
  /\ compare(absolute(a), absolute(b)) > 0
  /\ _is_pow10(absolute(b)) < 0
  /\ op' = "divide"
  /\ a' = absolute(a)
  /\ b' = absolute(b)
  /\ res' = ZeroGroups(_group_size(a))
  /\ str' = <<"divide">>
  /\ steps' = steps + 1
  /\ UNCHANGED <<x, y, rel, err>>

\* one pass of the for loop; when it ends *this = std::move(result)
DivideStep ==
  /\ op = "divide"
  /\ \E r \in {_divide_step(a, res, b)} :
       /\ a' = IF r[3] THEN r[1] ELSE r[2]
       /\ res' = r[2]
       /\ op' = IF r[3] THEN "divide" ELSE "done"
  /\ UNCHANGED <<b, x, y, rel, err, steps, str>>

\* _search(a, b) is entered
StartSearch ==
  /\ op = "init"
  /\ is_positive(a)
  /\ is_positive(b)
  /\ op' = "search"
  /\ rel' = <<1, 9999, FALSE>>
  /\ str' = <<"search">>
  /\ steps' = steps + 1
  /\ UNCHANGED <<a, b, x, y, res, err>>

\* one pass of the while loop
SearchStep ==
  /\ op = "search"
  /\ \E r \in {_search_step(a, b, rel[1], rel[2])} :
       /\ rel' = <<r[1], r[2], FALSE>>
       /\ op' = IF r[3] THEN "search" ELSE "done"
       /\ res' = IF r[3] THEN res ELSE <<r[4]>>
  /\ UNCHANGED <<a, b, x, y, err, steps, str>>

\* ++a is called: a negative a is negated and goes through operator--
StartInc ==
  /\ op = "init"
  /\ op' = IF is_negative(a) THEN "dec" ELSE "inc"
  /\ a' = IF is_negative(a) THEN reverse(a) ELSE a
  /\ rel' = <<0, 0, is_negative(a)>>
  /\ str' = <<"++">>
  /\ steps' = steps + 1
  /\ UNCHANGED <<b, x, y, res, err>>

\* --a is called: zero becomes NEGATIVE1, a negative a is negated and goes
\* through operator++
StartDec ==
  /\ op = "init"
  /\ op' = IF is_zero(a) THEN "done" ELSE IF is_negative(a) THEN "inc" ELSE "dec"
  /\ a' = IF is_zero(a) THEN <<NEGATIVE1>> ELSE IF is_negative(a) THEN reverse(a) ELSE a
  /\ rel' = <<0, 0, is_negative(a)>>
  /\ str' = <<"--">>
  /\ steps' = steps + 1
  /\ UNCHANGED <<b, x, y, res, err>>

\* one pass of the do-while loop of operator++; the caller negates back
IncStep ==
  /\ op = "inc"
  /\ \E r \in {_increment_step(a, rel[1])} :
       /\ a' = IF r[3] THEN r[1] ELSE IF rel[3] THEN reverse(r[1]) ELSE r[1]
       /\ rel' = <<r[2], 0, rel[3]>>
       /\ op' = IF r[3] THEN "inc" ELSE "done"
  /\ UNCHANGED <<b, x, y, res, err, steps, str>>

\* one pass of the do-while loop of operator--, _clear_excess_zeros() after
\* the last; the caller negates back
DecStep ==
  /\ op = "dec"
  /\ \E r \in {_decrement_step(a, rel[1])} :
       /\ a' = IF r[3] THEN r[1]
               ELSE IF rel[3] THEN reverse(_clear_excess_zeros(r[1]))
               ELSE _clear_excess_zeros(r[1])
       /\ rel' = <<r[2], 0, rel[3]>>
       /\ op' = IF r[3] THEN "dec" ELSE "done"
  /\ UNCHANGED <<b, x, y, res, err, steps, str>>

NextLoops ==
  \/ StartDivide
  \/ DivideStep
  \/ StartSearch
  \/ SearchStep
  \/ StartInc
  \/ IncStep
  \/ StartDec
  \/ DecStep

\* a call that has begun goes on, nothing suspends or cancels it: weak
\* fairness of NextLoops, whose steps are possible exactly until op is
\* "done" (WF_vars(NextLoops) with its enabling condition written out)
SpecLoops ==
  InitLoops /\ [][NextLoops]_vars /\ ([]<>(op = "done") \/ []<><<NextLoops>>_vars)

\* ------------------------------------------------------------------------
\* The mathematical value of a BigInteger within the bounds

Mag(num) ==
  LET RECURSIVE rev(_)
      rev(i) == IF i >= Len(num) THEN 0 ELSE _group(num, i) + 10000 * rev(i + 1)
  IN rev(0)

Val(num) == IF is_negative(num) THEN -Mag(num) ELSE Mag(num)

Abs(n) == IF n < 0 THEN -n ELSE n

Sgn(n) == IF n < 0 THEN -1 ELSE IF n > 0 THEN 1 ELSE 0

\* the quotient truncated toward zero
TruncDiv(n, d) == IF (n < 0) = (d < 0) THEN Abs(n) \div Abs(d) ELSE -(Abs(n) \div Abs(d))

\* |n| * |m| stays below 2 * 10^9
ProductFits(n, m) == m = 0 \/ Abs(n) <= 2000000000 \div Abs(m)

\* normalized form: groups in 0..9999, the sign bit only in number_[0], no
\* leading zero group, zero is one group 0 without sign
Normalized(num) ==
  /\ Len(num) >= 1
  /\ \A i \in 0..(Len(num) - 1) : _group(num, i) \in 0..9999
  /\ \A i \in 2..Len(num) : num[i] \in 0..9999
  /\ num[1] \in (0..9999) \cup (NEG_PART..(NEG_PART + 9999))
  /\ Len(num) > 1 => num[Len(num)] # 0
  /\ num # <<NEG_PART>>

\* ------------------------------------------------------------------------
\* Division and modulus

\* C1: a / b is the quotient truncated toward zero, negative exactly when
\* it is not zero and a and b have opposite signs.
C1_DivTruncates ==
  (op = "div" /\ res # Thrown) => Val(res) = TruncDiv(Val(x), Val(y))

\* C2: (a / b) * b + (a % b) == a for every a and every b # 0.
C2_DivModIdentity ==
  (op = "mod" /\ res # Thrown) => Eq(Plus(Mul(Div(x, y), y), res), x)

\* a negative dividend of several groups with a remainder that is not zero
C2_Witness ==
  /\ op = "mod"
  /\ res # Thrown
  /\ is_negative(x)
  /\ ~is_negative(y)
  /\ _group_size(x) >= 2
  /\ ~is_zero(res)

\* ------------------------------------------------------------------------
\* Addition and subtraction

\* C3: a + b is the exact sum in normalized form, in all four sign
\* combinations, with a carry past the most significant group, and
\* a + (-a) == 0.
C3_PlusExact ==
  op = "plus" =>
    /\ Val(res) = Val(x) + Val(y)
    /\ Normalized(res)
    /\ (y = opposite(x) => res = BigInteger(0))

\* the sum has more groups than either operand
C3_Witness ==
  /\ op = "plus"
  /\ _group_size(res) > _group_size(x)
  /\ _group_size(res) > _group_size(y)

\* C4: a - b is the exact difference in normalized form, in all four sign
\* combinations, and a - a == 0.
C4_MinusExact ==
  op = "minus" =>
    /\ Val(res) = Val(x) - Val(y)
    /\ Normalized(res)
    /\ (y = x => res = BigInteger(0))

\* a smaller receiver: the operands are swapped, the borrow runs through
\* two zero groups and the result is negative
C4_Witness ==
  /\ op = "minus"
  /\ ~is_negative(x)
  /\ ~is_negative(y)
  /\ compare(x, y) < 0
  /\ _group_size(y) = 3
  /\ _group(y, 0) = 0
  /\ _group(y, 1) = 0
  /\ is_positive(x)
  /\ is_negative(res)

\* ------------------------------------------------------------------------
\* Multiplication

\* C5: a * b is the exact product, negative exactly when a and b are not
\* zero and have opposite signs; a product with a zero operand is zero.
C5_MulExact ==
  (op = "mul" /\ res # Thrown) =>
    /\ ProductFits(Val(x), Val(y))
    /\ Val(res) = Val(x) * Val(y)
    /\ Normalized(res)
    /\ is_negative(res) = (~is_zero(x) /\ ~is_zero(y) /\ is_negative(x) # is_negative(y))
    /\ ((is_zero(x) \/ is_zero(y)) => res = BigInteger(0))

\* two operands of two groups, neither a power of ten, whose rows carry
C5_Witness ==
  /\ op = "mul"
  /\ _group_size(x) = 2
  /\ _group_size(y) = 2
  /\ _is_pow10(absolute(x)) < 0
  /\ _is_pow10(absolute(y)) < 0
  /\ _group(x, 0) = 9999
  /\ _group(y, 0) = 9999
  /\ _group_size(res) = 3

\* ------------------------------------------------------------------------
\* Comparison

\* C6: compare(a, b) is -1, 0 or 1 as a is less than, equal to or greater
\* than b; it is reflexive, antisymmetric and transitive, and <, >, <=, >=
\* agree with it.
C6_CompareOrder ==
  op = "compare" =>
    /\ rel.cmp = Sgn(Val(x) - Val(y))
    /\ rel.lt = (Val(x) < Val(y))
    /\ rel.gt = (Val(x) > Val(y))
    /\ rel.le = (Val(x) <= Val(y))
    /\ rel.ge = (Val(x) >= Val(y))
    /\ compare(x, x) = 0
    /\ compare(y, x) = -rel.cmp
    /\ \A c \in Operands :
         (rel.cmp <= 0 /\ compare(y, c) <= 0) => compare(x, c) <= 0

\* two different negative values of the same group count
C6_Witness ==
  /\ op = "compare"
  /\ is_negative(x)
  /\ is_negative(y)
  /\ _group_size(x) = _group_size(y)
  /\ rel.cmp = 1

\* C7: a == b (equality of the stored groups) holds exactly when
\* compare(a, b) == 0, for constructed values and results of operations,
\* and a != b is the negation.
C7_EqualAgreesWithCompare ==
  /\ \A c \in Operands \cup {b} : Eq(a, c) <=> (compare(a, c) = 0)
  /\ op = "compare" => (rel.eq <=> (rel.cmp = 0)) /\ (rel.ne <=> ~rel.eq)

\* the result of an operation, of two groups, compared equal to b
C7_Witness ==
  /\ op = "compare"
  /\ steps = 2
  /\ rel.eq
  /\ rel.cmp = 0
  /\ _group_size(x) = 2

\* ------------------------------------------------------------------------
\* Text

\* the decimal text of an integer
RECURSIVE DecimalDigits(_)
DecimalDigits(n) ==
  IF n < 10 THEN <<DigitChars[n + 1]>>
  ELSE Append(DecimalDigits(n \div 10), DigitChars[(n % 10) + 1])

Decimal(n) == IF n < 0 THEN <<"-">> \o DecimalDigits(-n) ELSE DecimalDigits(n)

\* C8: parsing to_string(x) yields x, to_string of that is to_string(x)
\* again, and to_string(x) is the decimal text of x: top group unpadded,
\* lower groups padded to 4 digits, '-' only when x is negative.
C8_ToStringRoundTrip ==
  op = "to_string" =>
    /\ res = x
    /\ to_string(res) = str
    /\ str = Decimal(Val(x))
    /\ Len(str) = (IF is_negative(x) THEN 1 ELSE 0) + 4 * (_group_size(x) - 1)
                  + Len(DecimalDigits(_group(x, _group_size(x) - 1)))

\* a negative value of three groups with lower groups that need padding
C8_Witness ==
  /\ op = "to_string"
  /\ is_negative(x)
  /\ _group_size(x) = 3
  /\ _group(x, 0) < 10
  /\ _group(x, 1) < 10
  /\ res = x

\* ------------------------------------------------------------------------
\* The grammar of integer literals

IsDigitRun(s) == \A i \in 1..Len(s) : s[i] \in Digits

IsPosInt(s) == Len(s) >= 1 /\ s[1] \in NonZeroDigits /\ IsDigitRun(s)

IsMantissa(s) ==
  /\ Len(s) >= 1
  /\ s[1] \in NonZeroDigits
  /\ Len(s) = 1 \/ (Len(s) >= 3 /\ s[2] = "." /\ IsDigitRun(SubSeq(s, 3, Len(s))))

IsExponent(s) == IsPosInt(IF Len(s) >= 1 /\ s[1] = "+" THEN Tail(s) ELSE s)

IsSciNotation(s) ==
  \E e \in 2..(Len(s) - 1) :
    /\ s[e] \in {"e", "E"}
    /\ IsMantissa(SubSeq(s, 1, e - 1))
    /\ IsExponent(SubSeq(s, e + 1, Len(s)))

Unsigned(s) == IF Len(s) >= 1 /\ s[1] \in {"+", "-"} THEN Tail(s) ELSE s

InGrammar(s) ==
  LET u == Unsigned(s) IN u = <<"0">> \/ IsPosInt(u) \/ IsSciNotation(u)

\* C9: construction from a string succeeds exactly for the strings of the
\* grammar [+-]?(0|[1-9][0-9]*|[1-9](.[0-9]+)?[eE]+?[1-9][0-9]*) and fails
\* for every other string.
C9_GrammarExact ==
  op = "construct" => ((res # Thrown) <=> InGrammar(str))

\* the parts of a scientific-notation literal
SciMarker(s) == CHOOSE e \in 2..(Len(s) - 1) : s[e] \in {"e", "E"}

SciDigits(s) ==
  LET m == SubSeq(s, 1, SciMarker(s) - 1)
  IN IF Len(m) = 1 THEN m ELSE <<m[1]>> \o SubSeq(m, 3, Len(m))

RECURSIVE DigitsValue(_)
DigitsValue(s) ==
  IF Len(s) = 0 THEN 0
  ELSE DigitsValue(SubSeq(s, 1, Len(s) - 1)) * 10 + DigitOf(s[Len(s)])

SciExponent(s) ==
  LET t == SubSeq(s, SciMarker(s) + 1, Len(s))
  IN DigitsValue(IF t[1] = "+" THEN Tail(t) ELSE t)

RECURSIVE Pow10(_)
Pow10(n) == IF n = 0 THEN 1 ELSE 10 * Pow10(n - 1)

\* C10: a literal d.f1...fk e D yields the integer d f1...fk times
\* 10^(D - k) with the literal's sign, and construction fails when D < k.
C10_SciValue ==
  (op = "construct" /\ IsSciNotation(Unsigned(str))) =>
    LET u  == Unsigned(str)
        ds == SciDigits(u)
        k  == Len(ds) - 1
        D  == SciExponent(u)
        neg == str[1] = "-"
    IN IF D < k THEN res = Thrown
       ELSE /\ res # Thrown
            /\ Normalized(res)
            /\ is_negative(res) = neg
            /\ to_string(res) = (IF neg THEN <<"-">> ELSE <<>>) \o ds \o Zeros(D - k)
            /\ (Len(ds) + D - k <= 9 =>
                  Val(res) = (IF neg THEN -1 ELSE 1) * DigitsValue(ds) * Pow10(D - k))

\* a negative literal whose mantissa digits span two groups, shifted left
C10_Witness ==
  /\ op = "construct"
  /\ IsSciNotation(Unsigned(str))
  /\ Len(SciDigits(Unsigned(str))) >= 5
  /\ SciExponent(Unsigned(str)) > Len(SciDigits(Unsigned(str))) - 1
  /\ str[1] = "-"
  /\ res # Thrown
  /\ is_negative(res)


\* ------------------------------------------------------------------------
\* Power

\* v^n, staying at 2 * 10^9 once the magnitude reaches it
RECURSIVE IntPow(_, _)
IntPow(v, n) ==
  IF n = 0 THEN 1
  ELSE LET r == IntPow(v, n - 1)
       IN IF Abs(r) >= 2000000000 \/ ~ProductFits(r, v) THEN 2000000000 ELSE r * v

\* C11: for a non-zero base x and an exponent n >= 0, x.power(n) completes
\* and is the product of n copies of x (1 for n = 0, x for n = 1), in
\* normalized form, negative exactly when x < 0 and n is odd.
C11_PowerIsRepeatedProduct ==
  (op = "power" /\ ~is_zero(x) /\ ~is_negative(y)) =>
     /\ res # Thrown
     /\ res # InvalidValue
     /\ Normalized(res)
     /\ Val(res) = IntPow(Val(x), Val(y))
     /\ is_negative(res) <=> (is_negative(x) /\ Val(y) % 2 = 1)

\* recursive squaring of a negative base with an odd exponent above 1
C11_Witness ==
  /\ op = "power"
  /\ is_negative(x)
  /\ _is_pow10(absolute(x)) < 0
  /\ x # <<NEGATIVE1>>
  /\ Val(y) >= 3
  /\ Val(y) % 2 = 1
  /\ is_negative(res)

\* C12: with a zero base, power(n) fails with "Invalid value." for every
\* n <= 0 and returns 0 for every n > 0.
C12_ZeroBase ==
  (op = "power" /\ is_zero(x)) =>
     /\ ~is_positive(y) => (res = InvalidValue /\ err = "InvalidValue")
     /\ is_positive(y) => (res = BigInteger(0) /\ err = "none")

\* 0.power(0) has failed
C12_Witness ==
  /\ op = "power"
  /\ is_zero(x)
  /\ is_zero(y)
  /\ err = "InvalidValue"

\* C13: for every non-zero base and every negative exponent, power
\* completes and returns a value.
C13_NegativeExponentCompletes ==
  (op = "power" /\ ~is_zero(x) /\ is_negative(y)) => (err = "none" /\ Normalized(res))


\* ------------------------------------------------------------------------
\* Shifts by a BigInteger

\* C14: for n >= 0, a << n is a * 2^n and a >> n is a / 2^n with 2^n
\* computed by power: the results are those of operator* and operator/,
\* a << n has the value a times 2^n, and a >> n has the value of the
\* quotient truncated toward zero, also for negative a.
C14_ShiftsArePowersOfTwo ==
  /\ (op = "shl" /\ ~is_negative(y)) =>
        /\ \E p \in {power(BigInteger(2), y)} : res = Mul(x, p)
        /\ Normalized(res)
        /\ ProductFits(Val(x), IntPow(2, Val(y)))
        /\ Val(res) = Val(x) * IntPow(2, Val(y))
  /\ (op = "shr" /\ ~is_negative(y)) =>
        /\ \E p \in {power(BigInteger(2), y)} : res = Div(x, p)
        /\ Normalized(res)
        /\ Val(res) = TruncDiv(Val(x), IntPow(2, Val(y)))

\* C15: a /= 0 and a %= 0 fail with a divide-by-zero error, a <<= n and
\* a >>= n with negative n fail, and each time a is left as it was.
C15_FailedOperationKeepsValue ==
  /\ (op \in {"div", "mod"} /\ is_zero(y)) => (err = "DivideByZero" /\ res = Thrown /\ a = x)
  /\ (op \in {"shl", "shr"} /\ is_negative(y)) => (err = "PositiveRequired" /\ res = Thrown /\ a = x)

\* a negative a has been shifted right by a negative amount and is unchanged
C15_Witness ==
  /\ op = "shr"
  /\ is_negative(y)
  /\ is_negative(x)
  /\ err = "PositiveRequired"
  /\ a = x


\* ------------------------------------------------------------------------
\* Move

\* C16: after move construction or move assignment from b, b is in the zero
\* state: exactly one group holding 0, so is_zero() is true, and its
\* to_string() is "0"; the destination holds the value b had.
C16_MovedFromIsZero ==
  (op \in {"move_construct", "move_assign"}) =>
     /\ res = y
     /\ Len(b) = 1
     /\ b[1] = 0
     /\ str = <<"0">>


\* ------------------------------------------------------------------------
\* Representation invariants under the public operations

\* the values a run holds: both objects and the last result
Held == {a, b} \cup (IF res \in {Thrown, InvalidValue} THEN {} ELSE {res})

\* C17: after construction and after every completed operation the group
\* sequence of each object and of the result is not empty, its most
\* significant group is not zero unless it is the only group, and the value
\* zero is exactly one group holding 0.
C17_NeverEmptyAndTrimmed ==
  \A num \in Held :
     /\ Len(num) >= 1
     /\ Len(num) > 1 => _group(num, Len(num) - 1) # 0
     /\ Mag(num) = 0 => num = <<0>>

\* a decrement has emptied the top group and the group is gone
C17_Witness ==
  /\ op = "dec"
  /\ Len(x) = 2
  /\ Len(a) = 1
  /\ a = <<9999>>

\* C18: zero is never negative: a value of magnitude 0 does not carry the
\* sign bit, so is_negative() is false whenever is_zero() is true.
C18_ZeroIsNotNegative ==
  \A num \in Held :
     /\ Mag(num) = 0 => (num[1] < NEG_PART /\ ~is_negative(num))
     /\ is_zero(num) => ~is_negative(num)

\* -1 incremented, -1 divided by 2, or the literal "-0" assigned: zero
C18_Witness ==
  /\ is_negative(x)
  /\ is_zero(a)
  /\ \/ op = "inc"
     \/ op = "div" /\ is_positive(y)
     \/ op = "mul" /\ is_zero(y)

\* C19: after every operation each stored group, the sign flag masked off,
\* lies in 0..9999, and no group but number_[0] carries the sign flag.
C19_GroupsInRange ==
  \A num \in Held :
     /\ \A i \in 0..(Len(num) - 1) : _group(num, i) \in 0..9999
     /\ \A i \in 2..Len(num) : num[i] \in 0..9999

\* a carry or a borrow has crossed a group boundary
C19_Witness ==
  \/ op = "inc" /\ x = <<9999>> /\ a = <<0, 1>>
  \/ op = "plus" /\ Len(x) = 1 /\ Len(y) = 1 /\ Len(a) = 2 /\ ~is_negative(a)


\* ------------------------------------------------------------------------
\* Conversion to a native integer

\* v lies in [min(T), max(T)]; every value of the model is below max(uint32_t)
InRangeOf(T, v) ==
  IF T = "int8_t" THEN v \in -128..127
  ELSE IF T = "uint8_t" THEN v \in 0..255
  ELSE IF T = "int16_t" THEN v \in -32768..32767
  ELSE IF T = "uint16_t" THEN v \in 0..65535
  ELSE v >= 0

\* C20: to_integer<T>() returns (v, true) with v the value exactly when the
\* value lies in [min(T), max(T)], and (0, false) otherwise, without an
\* error; so BigInteger(n).to_integer<T>() is (n, true) for n of type T,
\* min(T) and max(T) included.
C20_ToIntegerRange ==
  (op = "to_integer") =>
     /\ err = "none"
     /\ res[2] <=> InRangeOf(str[1], Val(x))
     /\ res[2] => res[1] = Val(x)
     /\ ~res[2] => res[1] = 0

\* min(int16_t) has been converted to int16_t
C20_Witness ==
  /\ op = "to_integer"
  /\ str = <<"int16_t">>
  /\ x = BigInteger(-32768)
  /\ res = <<-32768, TRUE>>


\* ------------------------------------------------------------------------
\* Failure of a compound operator

\* C21: when a *= b fails with the overflow error, a has exactly the value
\* and the sign it had before the call.
C21_FailedMultiplyKeepsReceiver ==
  (op = "mul" /\ err = "Overflow") => a = x


\* ------------------------------------------------------------------------
\* Decimal digits

\* C22: digits() is the number of decimal digits of the magnitude: 1 for
\* zero and the length of to_string(|x|) for every other x, positive or
\* negative, of any group count.
C22_DigitsOfMagnitude ==
  (op = "digits") => res = Len(to_string(absolute(x)))


\* ------------------------------------------------------------------------
\* Streams

\* C23: os << b appends to_string(b) to the stream os it is given, and
\* print(sep) emits the same text, followed by sep when sep is not NUL.
C23_OutputIsCanonicalText ==
  [][/\ (op' = "stream_out") => str' = str \o to_string(a)
     /\ (op' = "print") =>
          res' = res \o to_string(a) \o rel']_vars

\* C24: is >> b sets b to the value of the token; when the token is not a
\* valid literal the operation fails and b still holds a normalized value,
\* not an empty or partially built group sequence.
C24_InputKeepsValidValue ==
  (op = "stream_in") =>
     /\ Normalized(a)
     /\ (err = "none" /\ _is_integer(rel) # "UB") => a = _string_init(rel, "throw")


\* ------------------------------------------------------------------------
\* Increment and decrement

\* C25: ++x is x + 1 and --x is x - 1 for positive, zero and negative x,
\* in normalized form (so -1 steps up to the non-negative zero); the prefix
\* forms return the new value and the postfix forms the value held before.
C25_StepByOne ==
  /\ (op \in {"inc", "post_inc"}) => (Normalized(a) /\ Val(a) = Val(x) + 1)
  /\ (op \in {"dec", "post_dec"}) => (Normalized(a) /\ Val(a) = Val(x) - 1)
  /\ (op \in {"inc", "dec"}) => res = a
  /\ (op \in {"post_inc", "post_dec"}) => res = x

\* a postfix increment of a negative value has carried a borrow through a
\* zero group and removed the top group
C25_Witness ==
  /\ op = "post_inc"
  /\ x = BigInteger(-10000)
  /\ a = BigInteger(-9999)
  /\ res = x


\* ------------------------------------------------------------------------
\* Decimal shifts and the quotient digit

\* C26: for a non-negative v, _shift10 to the left by n yields v * 10^n and
\* to the right by n < digits(v) yields floor(v / 10^n), for n a multiple
\* of 4 or not; and a * b and a / b with |b| a power of ten, which take the
\* shift, equal what _multiply_with_pos and _divide_with_pos produce for
\* the same magnitudes.
C26_ShiftPathsAgree ==
  /\ (op = "shift10" /\ rel = kMoveLeft) =>
        /\ Normalized(res)
        /\ Val(res) \div Pow10(Val(y)) = Val(x)
        /\ Val(res) % Pow10(Val(y)) = 0
  /\ (op = "shift10" /\ rel = kMoveRight /\ Val(y) < digits(x)) =>
        /\ Normalized(res)
        /\ Val(res) = Val(x) \div Pow10(Val(y))
  /\ (op = "mul" /\ ~is_zero(x) /\ _is_pow10(absolute(y)) >= 0) =>
        absolute(res) = _multiply_with_pos(absolute(x), absolute(y))
  /\ (op = "div" /\ _is_pow10(absolute(y)) >= 0 /\ compare(absolute(x), absolute(y)) > 0) =>
        absolute(res) = _divide_with_pos(absolute(x), absolute(y))

\* C27: for a positive divisor d and a slice s with d <= s < 10000 * d,
\* _search(s, d) is the largest q in 1 .. 9999 with d * q <= s.
C27_SearchFindsLargestDigit ==
  (op = "search" /\ compare(x, y) >= 0 /\ Val(x) \div Val(y) <= 9999) =>
     /\ res \in 1..9999
     /\ Val(y) * res <= Val(x)
     /\ Val(x) - Val(y) * res < Val(y)

\* the search has ended on the upper value of a two-value interval
C27_Witness ==
  /\ op = "search"
  /\ x = BigInteger(99999999)
  /\ y = BigInteger(10001)
  /\ res = 9999

C30_RemainderBelowDivisor ==
  (op = "mod" /\ res # Thrown) =>
     /\ Abs(Val(res)) < Abs(Val(y))
     /\ Val(res) = 0 \/ Sgn(Val(res)) = Sgn(Val(x))


\* ------------------------------------------------------------------------
\* Termination

\* a pass that sends its loop round again has changed the loop's variables
LoopGoesOn ==
  /\ (op = "divide") => \E r \in {_divide_step(a, res, b)} : r[3] => r[1] # a
  /\ (op = "search") =>
        \E r \in {_search_step(a, b, rel[1], rel[2])} : r[3] => <<r[1], r[2]>> # <<rel[1], rel[2]>>
  /\ (op = "inc") => \E r \in {_increment_step(a, rel[1])} : r[3] => r[2] # rel[1]
  /\ (op = "dec") => \E r \in {_decrement_step(a, rel[1])} : r[3] => r[2] # rel[1]

\* C29: every operation runs to completion: each pass of the long-division
\* loop subtracts a positive multiple of the divisor and leaves a smaller,
\* non-negative remainder, each pass of the binary search shrinks the
\* interval [low, high], each pass of the carry and borrow loops of ++ and
\* -- moves on to the next group, and every call comes to its end.
C29_LoopsTerminate ==
  /\ []LoopGoesOn
  /\ [][/\ (op = "divide" /\ op' = "divide") =>
             /\ Val(a') >= 0
             /\ Val(a') < Val(a)
             /\ (Val(a) - Val(a')) % Val(b) = 0
        /\ (op = "search" /\ op' = "search") =>
             /\ rel'[1] <= rel'[2]
             /\ rel'[2] - rel'[1] < rel[2] - rel[1]
        /\ (op \in {"inc", "dec"} /\ op' = op) =>
             /\ rel'[1] = rel[1] + 1
             /\ rel'[1] <= _group_size(a)]_vars
  /\ <>(op = "done")

\* a long division of two passes has ended with the quotient in *this
C29_Witness ==
  /\ op = "done"
  /\ str = <<"divide">>
  /\ x = BigInteger(99999999)
  /\ y = BigInteger(-7)
  /\ a = res
  /\ Val(a) = 14285714

====
